---- MODULE Spec2Model ----
(***************************************************************************)
(* Model of two components of the home-automation platform:                *)
(*   - onewire/config_flow.py : the 1-Wire setup wizard and options wizard *)
(*   - logbook/queries.py     : the logbook query builder                  *)
(* Three specifications share the module: SpecSetup (setup wizard),        *)
(* SpecOptions (options wizard) and SpecQuery (query builder).  Each one     *)
(* leaves the variables of the other two components untouched.             *)
(***************************************************************************)
EXTENDS Integers, Sequences, FiniteSets, Bags, TLC

VARIABLES
    \* ---- setup wizard (OneWireFlowHandler), one slot per flow instance
    entries,            \* config entries that exist: set of [host, port, flow]
    sstep,              \* position of each setup flow
    serrors,            \* errors of the form the flow last showed
    onewire_config,     \* self.onewire_config
    sinput,             \* user_input of the submission being handled / last handled
    connects,           \* connect attempts made so far: set of [flow, host, port]
    \* ---- options wizard (OnewireOptionsFlowHandler), one slot per flow instance
    devices,            \* controller.devices of the live hub
    entry_options,      \* config_entry.options (top-level dict)
    heap,               \* the nested device_options dict objects, by address
    ostep,              \* position of each options flow
    options,            \* self.options (top-level dict, a copy per flow)
    configurable_devices,
    devices_to_configure,
    current_device,
    oerrors,            \* errors of the device_selection form last shown
    last,               \* the options-flow handler that ran last, with its input
    selected_devices,   \* the devices of the selection being configured
    shown,              \* devices whose configure_device form was shown since the selection
    nsubmitted,         \* configure_device submissions since the selection
    \* ---- logbook query builder
    db,                 \* database content
    request,            \* arguments of the last statement_for_request call
    rows                \* rows its statement returns, per window

setupVars == <<entries, sstep, serrors, onewire_config, sinput, connects>>
optionsVars == <<devices, entry_options, heap, ostep, options, configurable_devices,
                 devices_to_configure, current_device, oerrors, last, selected_devices,
                 shown,
                 nsubmitted>>
queryVars == <<db, request, rows>>
vars == <<setupVars, optionsVars, queryVars>>

(***************************************************************************)
(*                          SETUP WIZARD                                   *)
(***************************************************************************)

\* The two setup flows that may be in progress at the same time.
SetupFlows == {1, 2}
Hosts == {"localhost", "otherhost"}
Ports == {4304, 4305}
UserInputs == [host : Hosts, port : Ports]

NoInput == [host |-> "", port |-> 0]
EmptyConfig == [host |-> "", port |-> 0]

\* ConfigFlow._async_abort_entries_match: is there an entry whose host and port
\* both equal the given ones?
EntriesMatch(es, match) ==
    \E e \in es : e.host = match.host /\ e.port = match.port

\* dict.update(user_input): both keys of DATA_SCHEMA are required, so both are set.
UpdateConfig(config, user_input) ==
    [config EXCEPT !.host = user_input.host, !.port = user_input.port]

\* dict.setdefault-like slip: keeps the values of the first submission.
UpdateConfigKeepFirst(config, user_input) ==
    IF config = EmptyConfig THEN UpdateConfig(config, user_input) ELSE config

ConfigUpdate(config, user_input) == UpdateConfig(config, user_input)

\* async_step_user(user_input) up to the await of validate_input: the duplicate
\* check, then the update of onewire_config, then hub.connect is started.
StepUserChecked(f, user_input) ==
    /\ sinput' = [sinput EXCEPT ![f] = user_input]
    /\ IF EntriesMatch(entries, user_input)
       THEN /\ sstep' = [sstep EXCEPT ![f] = "abort"]
            /\ UNCHANGED <<onewire_config, connects, serrors>>
       ELSE /\ onewire_config' =
                  [onewire_config EXCEPT ![f] = ConfigUpdate(@, user_input)]
            /\ connects' = connects \cup
                  {[flow |-> f, host |-> user_input.host, port |-> user_input.port]}
            /\ sstep' = [sstep EXCEPT ![f] = "connecting"]
            /\ UNCHANGED serrors
    /\ UNCHANGED entries

\* The same handler with the duplicate check left out.
StepUserUnchecked(f, user_input) ==
    /\ sinput' = [sinput EXCEPT ![f] = user_input]
    /\ onewire_config' = [onewire_config EXCEPT ![f] = ConfigUpdate(@, user_input)]
    /\ connects' = connects \cup
          {[flow |-> f, host |-> user_input.host, port |-> user_input.port]}
    /\ sstep' = [sstep EXCEPT ![f] = "connecting"]
    /\ UNCHANGED <<serrors, entries>>

async_step_user(f, user_input) == StepUserChecked(f, user_input)

\* The flow manager starts the flow: async_step_user(None) shows the empty form.
SetupStart(f) ==
    /\ sstep[f] = "none"
    /\ sstep' = [sstep EXCEPT ![f] = "user"]
    /\ serrors' = [serrors EXCEPT ![f] = "none"]
    /\ UNCHANGED <<entries, onewire_config, sinput, connects>>
    /\ UNCHANGED <<optionsVars, queryVars>>

\* The user answers the user form.
SetupSubmit(f) ==
    /\ sstep[f] = "user"
    /\ \E user_input \in UserInputs : async_step_user(f, user_input)
    /\ UNCHANGED <<optionsVars, queryVars>>

\* hub.connect raised CannotConnect: the form is shown again with the error.
ProbeFailedResult(f) ==
    /\ serrors' = [serrors EXCEPT ![f] = "cannot_connect"]
    /\ sstep' = [sstep EXCEPT ![f] = "user"]
    /\ UNCHANGED entries

\* A slip that would make the failure terminal.
ProbeFailedAborts(f) ==
    /\ serrors' = [serrors EXCEPT ![f] = "cannot_connect"]
    /\ sstep' = [sstep EXCEPT ![f] = "abort"]
    /\ UNCHANGED entries

OnCannotConnect(f) == ProbeFailedResult(f)

SetupProbeFails(f) ==
    /\ sstep[f] = "connecting"
    /\ OnCannotConnect(f)
    /\ UNCHANGED <<onewire_config, sinput, connects>>
    /\ UNCHANGED <<optionsVars, queryVars>>

\* hub.connect returned: async_create_entry(title=host, data=self.onewire_config).
SetupProbeSucceeds(f) ==
    /\ sstep[f] = "connecting"
    /\ entries' = entries \cup
          {[host |-> onewire_config[f].host, port |-> onewire_config[f].port,
            flow |-> f]}
    /\ sstep' = [sstep EXCEPT ![f] = "create_entry"]
    /\ UNCHANGED <<serrors, onewire_config, sinput, connects>>
    /\ UNCHANGED <<optionsVars, queryVars>>

SetupInit ==
    /\ entries = {}
    /\ sstep = [f \in SetupFlows |-> "none"]
    /\ serrors = [f \in SetupFlows |-> "none"]
    /\ onewire_config = [f \in SetupFlows |-> EmptyConfig]
    /\ sinput = [f \in SetupFlows |-> NoInput]
    /\ connects = {}

(***************************************************************************)
(*                          OPTIONS WIZARD                                 *)
(***************************************************************************)

\* The two options flows that may be open on the config entry at the same time.
Flows == {1, 2}

\* Devices the hub may report (OWDeviceDescription: id, family) with the name the
\* user gave them in the device registry ("" when none).
AllDevices ==
    { [id |-> "28.111111111111", family |-> "28", name_by_user |-> "Attic"],
      [id |-> "28.222222222222", family |-> "28", name_by_user |-> ""],
      [id |-> "10.333333333333", family |-> "10", name_by_user |-> ""] }
DeviceIds == {d.id : d \in AllDevices}

\* const.py
DEVICE_SUPPORT_OPTIONS == {"28"}
PRECISION_MAPPING_FAMILY_28 == {"temperature", "temperature9"}

\* _get_device_long_name
LongName(device) ==
    IF device.name_by_user # ""
    THEN device.name_by_user \o " (" \o device.id \o ")"
    ELSE device.id

\* A top-level options dict is {} (NoKey) or {device_options: <dict object>}; the
\* nested dict object is named by its address in the heap.  A nested dict maps a
\* device id to its settings: "absent" (no key), "empty" ({}) or the precision.
NoKey == "{}"
Addr == {"dict1", "dict2", "dict3"}
Settings == {"absent", "empty"} \cup PRECISION_MAPPING_FAMILY_28
EmptyDict == [i \in DeviceIds |-> "absent"]

\* The value of a top-level dict: what it holds, followed through the heap.
Value(h, top) == IF top = NoKey THEN EmptyDict ELSE h[top]
\* {} and {device_options: {}} are different bags.
Bag(h, top) == [has_key |-> top # NoKey, device_options |-> Value(h, top)]

\* Addresses some top-level dict still refers to.
Referenced(opts, eo) == ({opts[f] : f \in Flows} \cup {eo}) \ {NoKey}
\* The interpreter's allocation of a new dict object.
NewAddr(opts, eo) ==
    CHOOSE a \in Addr : a \notin Referenced(opts, eo)
\* Objects nothing refers to any more are gone.
Collect(h, opts, eo) ==
    [a \in Addr |-> IF a \in Referenced(opts, eo) THEN h[a] ELSE EmptyDict]

\* __init__: self.options = dict(config_entry.options), a copy of the top level
\* only: the nested device_options dict is the same object.
InitOptions(eo) == eo

\* async_step_init: the devices that support options, keyed by long name.
ConfigurableOf(all_devices) ==
    LET ds == {d \in all_devices : d.family \in DEVICE_SUPPORT_OPTIONS}
    IN  [n \in {LongName(d) : d \in ds} |-> CHOOSE d \in ds : LongName(d) = n]

\* async_step_init aborts on `not all_devices`.
InitAbortsOnNoDevices(all_devices) == all_devices = {}
InitAborts(all_devices) == InitAbortsOnNoDevices(all_devices)

\* {device_name: ... for device_name in selected_devices}: insertion order of the
\* first occurrences.
RECURSIVE DictKeys(_)
DictKeys(selected) ==
    IF selected = <<>> THEN <<>>
    ELSE LET init == DictKeys(SubSeq(selected, 1, Len(selected) - 1))
             x == selected[Len(selected)]
         IN  IF \E i \in 1..Len(init) : init[i] = x THEN init ELSE Append(init, x)

Range(seq) == {seq[i] : i \in 1..Len(seq)}

NoLast == [flow |-> 0, op |-> "none", clear |-> FALSE, selected |-> {},
           device |-> "", precision |-> ""]

\* _update_options: async_create_entry(title="", data=self.options); the flow
\* manager stores the data as the entry's options.
UpdateOptionsStep(f, opts, h) ==
    /\ ostep' = [ostep EXCEPT ![f] = "create_entry"]
    /\ options' = opts
    /\ entry_options' = opts[f]
    /\ heap' = Collect(h, opts, opts[f])

\* async_step_configure_device(user_input=None): popitem() on the pending dict
\* (last inserted first), then the form for that device.
ShowConfigureForm(f, pending, nshown) ==
    IF pending = <<>>
    THEN /\ ostep' = [ostep EXCEPT ![f] = "KeyError"]
         /\ UNCHANGED <<devices_to_configure, current_device>>
         /\ shown' = [shown EXCEPT ![f] = nshown]
    ELSE /\ ostep' = [ostep EXCEPT ![f] = "configure_device"]
         /\ current_device' = [current_device EXCEPT ![f] = pending[Len(pending)]]
         /\ devices_to_configure' =
               [devices_to_configure EXCEPT ![f] = SubSeq(pending, 1, Len(pending) - 1)]
         /\ shown' = [shown EXCEPT ![f] = Append(nshown, pending[Len(pending)])]

\* self.options = {} on the clear flag.
ResetOptions(top) == NoKey
\* The reset left out.
KeepOptions(top) == top
ClearedOptions(top) == ResetOptions(top)

\* `if selected_devices:` decides between configuring and the error.
SelectionGiven(selected) == selected # <<>>
SelectionAlwaysGiven(selected) == TRUE
HasSelection(selected) == SelectionGiven(selected)

\* async_step_device_selection(user_input)
StepDeviceSelection(f, clear, selected) ==
    /\ last' = [NoLast EXCEPT !.flow = f, !.op = "device_selection",
                              !.clear = clear, !.selected = Range(selected)]
    /\ IF clear
       THEN /\ UpdateOptionsStep(f, [options EXCEPT ![f] = ClearedOptions(@)], heap)
            /\ UNCHANGED <<devices_to_configure, current_device, oerrors, shown,
                           nsubmitted, selected_devices>>
       ELSE IF HasSelection(selected)
       THEN /\ ShowConfigureForm(f, DictKeys(selected), <<>>)
            /\ nsubmitted' = [nsubmitted EXCEPT ![f] = 0]
            /\ selected_devices' = [selected_devices EXCEPT ![f] = Range(selected)]
            /\ UNCHANGED <<options, entry_options, heap, oerrors>>
       ELSE /\ oerrors' = [oerrors EXCEPT ![f] = "device_not_selected"]
            /\ UNCHANGED <<ostep, options, entry_options, heap, devices_to_configure,
                           current_device, shown, nsubmitted, selected_devices>>
    /\ UNCHANGED <<devices, configurable_devices>>

\* _update_device_options: the nested dict after the update, and the top-level
\* dict of the flow (setdefault creates the nested dict when the key is missing).
DeviceOptionsTop(f) ==
    IF options[f] = NoKey THEN NewAddr(options, entry_options) ELSE options[f]
DeviceOptionsAfter(f, precision) ==
    LET description == configurable_devices[f][current_device[f]]
        old == Value(heap, options[f])
        made == IF old[description.id] = "absent" THEN "empty" ELSE old[description.id]
    IN  [old EXCEPT ![description.id] =
            IF description.family = "28" THEN precision ELSE made]

\* `if self.devices_to_configure:` decides between the next form and the commit.
PendingLeft(pending) == pending # <<>>
PendingIgnored(pending) == FALSE
MoreToConfigure(pending) == PendingLeft(pending)

\* async_step_configure_device(user_input)
StepConfigureDevice(f, precision) ==
    LET top == DeviceOptionsTop(f)
        opts == [options EXCEPT ![f] = top]
        h == [heap EXCEPT ![top] = DeviceOptionsAfter(f, precision)]
    IN  /\ last' = [NoLast EXCEPT !.flow = f, !.op = "configure_device",
                                  !.device = current_device[f],
                                  !.precision = precision]
        /\ nsubmitted' = [nsubmitted EXCEPT ![f] = @ + 1]
        /\ IF MoreToConfigure(devices_to_configure[f])
           THEN /\ ShowConfigureForm(f, devices_to_configure[f], shown[f])
                /\ options' = opts
                /\ heap' = h
                /\ UNCHANGED entry_options
           ELSE /\ UpdateOptionsStep(f, opts, h)
                /\ UNCHANGED <<devices_to_configure, current_device, shown>>
        /\ UNCHANGED <<devices, configurable_devices, oerrors, selected_devices>>

\* The user opens the options of the entry: __init__, then async_step_init, which
\* ends in the device_selection form or in an abort.
OptionsOpen(f) ==
    /\ ostep[f] \in {"closed", "create_entry", "abort"}
    /\ last' = [NoLast EXCEPT !.flow = f, !.op = "init"]
    /\ options' = [options EXCEPT ![f] = InitOptions(entry_options)]
    /\ heap' = Collect(heap, options', entry_options)
    /\ devices_to_configure' = [devices_to_configure EXCEPT ![f] = <<>>]
    /\ current_device' = [current_device EXCEPT ![f] = ""]
    /\ oerrors' = [oerrors EXCEPT ![f] = "none"]
    /\ shown' = [shown EXCEPT ![f] = <<>>]
    /\ nsubmitted' = [nsubmitted EXCEPT ![f] = 0]
    /\ selected_devices' = [selected_devices EXCEPT ![f] = {}]
    /\ IF InitAborts(devices)
       THEN /\ ostep' = [ostep EXCEPT ![f] = "abort"]
            /\ configurable_devices' =
                  [configurable_devices EXCEPT ![f] = ConfigurableOf({})]
       ELSE /\ ostep' = [ostep EXCEPT ![f] = "device_selection"]
            /\ configurable_devices' =
                  [configurable_devices EXCEPT ![f] = ConfigurableOf(devices)]
    /\ UNCHANGED <<devices, entry_options>>
    /\ UNCHANGED <<setupVars, queryVars>>

\* Longest device_selection list a submission carries (it may repeat a name).
MaxSelected == 2
Selections(names) == UNION {[1..n -> names] : n \in 0..MaxSelected}

\* The user answers the device_selection form; cv.multi_select admits only the
\* names the form offered.
OptionsSelect(f) ==
    /\ ostep[f] = "device_selection"
    /\ \E clear \in BOOLEAN, selected \in Selections(DOMAIN configurable_devices[f]) :
          StepDeviceSelection(f, clear, selected)
    /\ UNCHANGED <<setupVars, queryVars>>

\* The user answers the configure_device form; vol.In admits only the precisions.
OptionsConfigure(f) ==
    /\ ostep[f] = "configure_device"
    /\ \E precision \in PRECISION_MAPPING_FAMILY_28 : StepConfigureDevice(f, precision)
    /\ UNCHANGED <<setupVars, queryVars>>

OptionsInit ==
    /\ devices \in SUBSET AllDevices
    /\ entry_options = NoKey
    /\ heap = [a \in Addr |-> EmptyDict]
    /\ ostep = [f \in Flows |-> "closed"]
    /\ options = [f \in Flows |-> NoKey]
    /\ configurable_devices = [f \in Flows |-> ConfigurableOf({})]
    /\ devices_to_configure = [f \in Flows |-> <<>>]
    /\ current_device = [f \in Flows |-> ""]
    /\ oerrors = [f \in Flows |-> "none"]
    /\ last = NoLast
    /\ selected_devices = [f \in Flows |-> {}]
    /\ shown = [f \in Flows |-> <<>>]
    /\ nsubmitted = [f \in Flows |-> 0]

(***************************************************************************)
(*                        LOGBOOK QUERY BUILDER                            *)
(* Text is a sequence of characters, SQL NULL is the value Null (text) or  *)
(* "NULL" (ids, states, markers).  Conditions are three-valued, as in SQL: *)
(* a WHERE keeps a row only when its condition is "true".  The statement's  *)
(* ORDER BY does not change which rows are returned; a result is the bag   *)
(* of its rows.                                                            *)
(***************************************************************************)

Null == <<"NULL">>

Not3(x) == IF x = "true" THEN "false" ELSE IF x = "false" THEN "true" ELSE "unknown"
And3(x, y) ==
    IF x = "false" \/ y = "false" THEN "false"
    ELSE IF x = "true" /\ y = "true" THEN "true" ELSE "unknown"
Or3(x, y) ==
    IF x = "true" \/ y = "true" THEN "true"
    ELSE IF x = "false" /\ y = "false" THEN "false" ELSE "unknown"

\* SQL LIKE on non-null text: % is any run of characters, _ any one character.
RECURSIVE LikeMatch(_, _)
LikeMatch(text, pattern) ==
    IF pattern = <<>> THEN text = <<>>
    ELSE IF Head(pattern) = "%"
    THEN \/ LikeMatch(text, Tail(pattern))
         \/ text # <<>> /\ LikeMatch(Tail(text), pattern)
    ELSE /\ text # <<>>
         /\ Head(pattern) = "_" \/ Head(pattern) = Head(text)
         /\ LikeMatch(Tail(text), Tail(pattern))

\* column.like(pattern)
Like(text, pattern) ==
    IF text = Null THEN "unknown"
    ELSE IF LikeMatch(text, pattern) THEN "true" ELSE "false"

\* '"entity_id":' and '"unit_of_measurement":' as they stand in serialized JSON.
ENTITY_ID_JSON ==
    <<"\"", "e", "n", "t", "i", "t", "y", "_", "i", "d", "\"", ":">>
UNIT_OF_MEASUREMENT_JSON ==
    <<"\"", "u", "n", "i", "t", "_", "o", "f", "_", "m", "e", "a", "s", "u", "r",
      "e", "m", "e", "n", "t", "\"", ":">>
UNIT_OF_MEASUREMENT_JSON_LIKE == <<"%">> \o UNIT_OF_MEASUREMENT_JSON \o <<"%">>

\* ENTITY_ID_JSON_TEMPLATE.format(entity_id): '%"entity_id":"{}"%'
ENTITY_ID_JSON_TEMPLATE(entity_id) ==
    <<"%">> \o ENTITY_ID_JSON \o <<"\"">> \o entity_id \o <<"\"", "%">>

\* [f"{domain}.%" for domain in CONTINUOUS_DOMAINS]
CONTINUOUS_ENTITY_ID_LIKE ==
    { <<"p", "r", "o", "x", "i", "m", "i", "t", "y", ".", "%">>,
      <<"s", "e", "n", "s", "o", "r", ".", "%">> }

EVENT_STATE_CHANGED == "state_changed"

\* ---- joins

\* Events LEFT OUTER JOIN EventData ON Events.data_id = EventData.data_id
EventsOuterJoinData(D) ==
    UNION { LET ds == {d \in D.event_data : e.data_id # "NULL" /\ d.data_id = e.data_id}
            IN  IF ds = {} THEN {[e |-> e, shared_data |-> Null]}
                ELSE {[e |-> e, shared_data |-> d.shared_data] : d \in ds}
            : e \in D.events }

NullState == [state_id |-> "NULL", state |-> "NULL"]

\* States LEFT OUTER JOIN old_state ON States.old_state_id = old_state.state_id
\*        LEFT OUTER JOIN StateAttributes ON States.attributes_id = ...
StatesOuterJoin(D) ==
    UNION { LET olds == {o \in D.states :
                            s.old_state_id # "NULL" /\ o.state_id = s.old_state_id}
                atts == {a \in D.state_attributes :
                            s.attributes_id # "NULL" /\ a.attributes_id = s.attributes_id}
                os == IF olds = {} THEN {NullState}
                      ELSE {[state_id |-> o.state_id, state |-> o.state] : o \in olds}
                as == IF atts = {} THEN {Null} ELSE {a.shared_attrs : a \in atts}
            IN  {[s |-> s, old_state |-> o, shared_attrs |-> a] : o \in os, a \in as}
            : s \in D.states }

\* ---- the rows of the fixed column set

\* EVENT_ROWS_NO_STATES with the context_only marker
EventRow(j, context_only) ==
    [event_id |-> j.e.event_id, event_type |-> j.e.event_type,
     event_data |-> j.e.event_data, time_fired |-> j.e.time_fired,
     context_id |-> j.e.context_id, shared_data |-> j.shared_data,
     state_id |-> "NULL", state |-> "NULL", entity_id |-> Null,
     attributes |-> Null, shared_attrs |-> Null, context_only |-> context_only]

CONTEXT_ONLY == "1"
NOT_CONTEXT_ONLY == "NULL"

\* the columns _select_states selects
StateRow(j) ==
    [event_id |-> "NULL", event_type |-> EVENT_STATE_CHANGED,
     event_data |-> Null, time_fired |-> j.s.last_changed,
     context_id |-> j.s.context_id, shared_data |-> Null,
     state_id |-> j.s.state_id, state |-> j.s.state, entity_id |-> j.s.entity_id,
     attributes |-> j.s.attributes, shared_attrs |-> j.shared_attrs,
     context_only |-> NOT_CONTEXT_ONLY]

\* A result: the bag of the rows a select returns, one per joined source row.
RowsOf(projected) ==
    [r \in {p.row : p \in projected} |->
        Cardinality({p \in projected : p.row = r})]
EventRows(source) ==
    RowsOf({[of |-> j, row |-> EventRow(j, NOT_CONTEXT_ONLY)] : j \in source})
ContextOnlyRows(source) ==
    RowsOf({[of |-> j, row |-> EventRow(j, CONTEXT_ONLY)] : j \in source})
StateRows(source) == RowsOf({[of |-> j, row |-> StateRow(j)] : j \in source})

\* ---- conditions

\* (column > start_day) & (column < end_day)
InWindowExclusive(t, start_day, end_day) == start_day < t /\ t < end_day
\* A window that takes in its end.
InWindowEndInclusive(t, start_day, end_day) == start_day < t /\ t <= end_day
InWindow(t, start_day, end_day) == InWindowExclusive(t, start_day, end_day)

\* States.state != old_state.state
StateDiffers(state, old) ==
    IF state = "NULL" \/ old = "NULL" THEN "unknown"
    ELSE IF state # old THEN "true" ELSE "false"

\* _missing_state_matcher
MissingStateMatcherAsWritten(j) ==
    And3(IF j.old_state.state_id # "NULL" THEN "true" ELSE "false",
         And3(StateDiffers(j.s.state, j.old_state.state),
              IF j.s.state # "NULL" THEN "true" ELSE "false"))
\* The same without the comparison with the old state.
MissingStateMatcherNoCompare(j) ==
    And3(IF j.old_state.state_id # "NULL" THEN "true" ELSE "false",
         IF j.s.state # "NULL" THEN "true" ELSE "false")
_missing_state_matcher(j) == MissingStateMatcherAsWritten(j)

RECURSIVE AndAll(_), OrAny(_)
AndAll(conds) ==
    IF conds = {} THEN "true"
    ELSE LET c == CHOOSE x \in conds : TRUE IN And3(c, AndAll(conds \ {c}))
OrAny(conds) ==
    IF conds = {} THEN "false"
    ELSE LET c == CHOOSE x \in conds : TRUE IN Or3(c, OrAny(conds \ {c}))

_not_continuous_domain_matcher(j) ==
    AndAll({Not3(Like(j.s.entity_id, p)) : p \in CONTINUOUS_ENTITY_ID_LIKE})
_continuous_domain_matcher(j) ==
    OrAny({Like(j.s.entity_id, p) : p \in CONTINUOUS_ENTITY_ID_LIKE})
_not_uom_attributes_matcher(j) ==
    Or3(Not3(Like(j.shared_attrs, UNIT_OF_MEASUREMENT_JSON_LIKE)),
        Not3(Like(j.s.attributes, UNIT_OF_MEASUREMENT_JSON_LIKE)))
_not_continuous_entity_matcher(j) ==
    Or3(_not_continuous_domain_matcher(j),
        And3(_continuous_domain_matcher(j), _not_uom_attributes_matcher(j)))

\* Events.event_data.like(like) | EventData.shared_data.like(like)
EventEntityLike(j, like) ==
    Or3(Like(j.e.event_data, like), Like(j.shared_data, like))

\* _apply_event_entity_id_matchers
_apply_event_entity_id_matchers(j, entity_ids) ==
    OrAny({EventEntityLike(j, ENTITY_ID_JSON_TEMPLATE(entity_ids[i]))
              : i \in 1..Len(entity_ids)})

\* ---- selects (as the joined source rows that pass the WHERE)

_select_events_without_states(D, start_day, end_day, event_types) ==
    {j \in EventsOuterJoinData(D) :
        /\ InWindow(j.e.time_fired, start_day, end_day)
        /\ j.e.event_type \in event_types}

_select_states(D, start_day, end_day) ==
    {j \in StatesOuterJoin(D) :
        /\ InWindow(j.s.last_updated, start_day, end_day)
        /\ _missing_state_matcher(j) = "true"
        /\ _not_continuous_entity_matcher(j) = "true"
        /\ j.s.last_updated = j.s.last_changed}

\* _select_events_context_id_subquery has the WHERE of _select_events_without_states
_select_events_context_id_subquery(D, start_day, end_day, event_types) ==
    {j \in EventsOuterJoinData(D) :
        /\ InWindow(j.e.time_fired, start_day, end_day)
        /\ j.e.event_type \in event_types}

\* the context ids _select_entity_context_ids_sub_query returns
_select_entity_context_ids_sub_query(D, start_day, end_day, event_types, entity_id, entity_id_like) ==
    {j.e.context_id :
        j \in {x \in _select_events_context_id_subquery(D, start_day, end_day,
                                                        event_types) :
                  EventEntityLike(x, entity_id_like) = "true"}}
    \cup
    {s.context_id :
        s \in {x \in D.states : /\ InWindow(x.last_updated, start_day, end_day)
                                /\ x.entity_id = entity_id}}

\* the context ids _select_entities_context_ids_sub_query returns
_select_entities_context_ids_sub_query(D, start_day, end_day, event_types, entity_ids) ==
    {j.e.context_id :
        j \in {x \in _select_events_context_id_subquery(D, start_day, end_day,
                                                        event_types) :
                  _apply_event_entity_id_matchers(x, entity_ids) = "true"}}
    \cup
    {s.context_id :
        s \in {x \in D.states : /\ InWindow(x.last_updated, start_day, end_day)
                                /\ x.entity_id \in Range(entity_ids)}}

\* _select_events_context_only().where(Events.context_id.in_(context_ids)):
\* no condition on the time or the type of the event.
_select_events_context_only(D, context_ids) ==
    {j \in EventsOuterJoinData(D) : j.e.context_id \in context_ids}

\* Events LEFT OUTER JOIN States ON Events.event_id = States.event_id
\*        LEFT OUTER JOIN StateAttributes, with the WHEREs of the legacy select; a
\* row without a state has NULL state columns and fails them.
_legacy_select_events_context_id(D, start_day, end_day, context_id) ==
    {x \in [e : D.events, j : StatesOuterJoin(D)] :
        /\ x.j.s.event_id # "NULL" /\ x.j.s.event_id = x.e.event_id
        /\ x.j.s.last_updated = x.j.s.last_changed
        /\ _not_continuous_entity_matcher(x.j) = "true"
        /\ InWindow(x.e.time_fired, start_day, end_day)
        /\ x.e.context_id = context_id}

LegacyRow(x) ==
    [event_id |-> x.e.event_id, event_type |-> x.e.event_type,
     event_data |-> x.e.event_data, time_fired |-> x.e.time_fired,
     context_id |-> x.e.context_id, shared_data |-> Null,
     state_id |-> x.j.s.state_id, state |-> x.j.s.state,
     entity_id |-> x.j.s.entity_id, attributes |-> x.j.s.attributes,
     shared_attrs |-> x.j.shared_attrs, context_only |-> NOT_CONTEXT_ONLY]

LegacyRows(source) == RowsOf({[of |-> x, row |-> LegacyRow(x)] : x \in source})

\* ---- statements

_single_entity_stmt(D, start_day, end_day, event_types, entity_id, entity_id_like) ==
    EventRows({j \in _select_events_without_states(D, start_day, end_day, event_types) :
                  EventEntityLike(j, entity_id_like) = "true"})
    (+) StateRows({j \in _select_states(D, start_day, end_day) :
                      j.s.entity_id = entity_id})
    (+) ContextOnlyRows(_select_events_context_only(D,
            _select_entity_context_ids_sub_query(D, start_day, end_day, event_types,
                                                 entity_id, entity_id_like)))

_entities_stmt(D, start_day, end_day, event_types, entity_ids) ==
    EventRows({j \in _select_events_without_states(D, start_day, end_day, event_types) :
                  _apply_event_entity_id_matchers(j, entity_ids) = "true"})
    (+) StateRows({j \in _select_states(D, start_day, end_day) :
                      j.s.entity_id \in Range(entity_ids)})
    (+) ContextOnlyRows(_select_events_context_only(D,
            _select_entities_context_ids_sub_query(D, start_day, end_day,
                                                   event_types, entity_ids)))

\* A declarative filter: the entity ids its entity predicate rejects.  NoFilters
\* is the absence of one (filters is None, entity_filter is None).
NoFilters == [given |-> FALSE, excluded |-> {}]
\* filters.entity_filter(): the predicate on States.entity_id
entity_filter(j, filters) ==
    IF j.s.entity_id \in filters.excluded THEN "false" ELSE "true"

_all_stmt(D, start_day, end_day, event_types, filters, context_id) ==
    IF context_id # "NULL"
    THEN EventRows({j \in _select_events_without_states(D, start_day, end_day,
                                                        event_types) :
                       j.e.context_id = context_id})
         (+) StateRows({j \in _select_states(D, start_day, end_day) :
                           j.s.context_id = context_id})
         (+) LegacyRows(_legacy_select_events_context_id(D, start_day, end_day,
                                                         context_id))
    ELSE IF filters.given
    THEN EventRows(_select_events_without_states(D, start_day, end_day, event_types))
         (+) StateRows({j \in _select_states(D, start_day, end_day) :
                           entity_filter(j, filters) = "true"})
    ELSE EventRows(_select_events_without_states(D, start_day, end_day, event_types))
         (+) StateRows(_select_states(D, start_day, end_day))

statement_for_request(D, start_day, end_day, event_types, entity_ids, filters, context_id) ==
    IF entity_ids = <<>>
    THEN _all_stmt(D, start_day, end_day, event_types, filters, context_id)
    ELSE IF Len(entity_ids) > 1
    THEN _entities_stmt(D, start_day, end_day, event_types, entity_ids)
    ELSE _single_entity_stmt(D, start_day, end_day, event_types, entity_ids[1],
                             ENTITY_ID_JSON_TEMPLATE(entity_ids[1]))

\* ---- database contents and requests of the model

\* Records are stamped 1..MaxTime; a window's bounds are taken from 0..MaxTime+1.
MaxTime == 3
RecordTimes == 1..MaxTime
WindowTimes == 0..(MaxTime + 1)

\* Entity ids: two that the pattern of the first cannot tell apart, one other,
\* and one of a continuous domain.
E_a_c == <<"l", ".", "a", "_", "c">>
E_abc == <<"l", ".", "a", "b", "c">>
E_b == <<"l", ".", "b">>
E_sensor == <<"s", "e", "n", "s", "o", "r", ".", "t">>

\* The recorder's compact JSON of an event payload that names one entity.
EventDataJson(entity_id) ==
    <<"{">> \o ENTITY_ID_JSON \o <<"\"">> \o entity_id \o <<"\"", "}">>
\* Attribute payloads with and without the unit key.
AttrsWithUnit == <<"{">> \o UNIT_OF_MEASUREMENT_JSON \o <<"\"", "C", "\"", "}">>
AttrsWithoutUnit == <<"{", "}">>

ContextIds == {"c1", "c2"}
EVENT_TYPES == {"call_service"}
StoredEventTypes == {"call_service", "automation_triggered"}

EmptyDb == [events |-> {}, event_data |-> {}, states |-> {}, state_attributes |-> {}]

\* The shared payload row events may point to.
SharedData == {[data_id |-> "d1", shared_data |-> EventDataJson(E_abc)]}
\* Where an event carries its payload: nowhere, in event_data, or shared.
Payloads ==
    { [event_data |-> Null, data_id |-> "NULL"],
      [event_data |-> EventDataJson(E_a_c), data_id |-> "NULL"],
      [event_data |-> EventDataJson(E_abc), data_id |-> "NULL"],
      [event_data |-> Null, data_id |-> "d1"] }

Event(id, type, payload, time, context) ==
    [event_id |-> id, event_type |-> type, event_data |-> payload.event_data,
     data_id |-> payload.data_id, time_fired |-> time, context_id |-> context]

State(id, entity, value, attributes, changed, updated, old, attributes_id, context, event) ==
    [state_id |-> id, entity_id |-> entity, state |-> value,
     attributes |-> attributes, last_changed |-> changed, last_updated |-> updated,
     old_state_id |-> old, attributes_id |-> attributes_id, context_id |-> context,
     event_id |-> event]

\* Contents with up to two events and a state change of l.a_c with its prior state.
FirstEvents ==
    {{}} \cup {{Event("e1", type, payload, t, c)} :
                 type \in StoredEventTypes, payload \in Payloads,
                 t \in RecordTimes, c \in ContextIds}
SecondEvents ==
    {{}} \cup {{Event("e2", "call_service", [event_data |-> EventDataJson(E_a_c),
                                              data_id |-> "NULL"], t, c)} :
                 t \in RecordTimes, c \in ContextIds}
PriorState == State("s1", E_a_c, "off", Null, 0, 0, "NULL", "NULL", "c2", "NULL")
StateChanges ==
    {{}} \cup {{PriorState,
                State("s2", E_a_c, "on", Null, t, t, "s1", "NULL", "c1", ev)} :
                 t \in RecordTimes, ev \in {"NULL", "e1"}}
QueryDbs ==
    {[events |-> e1 \cup e2, event_data |-> SharedData, states |-> st,
      state_attributes |-> {}] :
        e1 \in FirstEvents, e2 \in SecondEvents, st \in StateChanges}

\* Contents with one state record in every shape, with or without a record its
\* old_state_id names, and no events.
PriorStates ==
    {{}} \cup {{State("s1", E_abc, v, Null, 0, 0, "NULL", "NULL", "c1", "NULL")} :
                 v \in {"NULL", "on", "off"}}
SharedAttrs ==
    { [id |-> "NULL", rows |-> {}],
      [id |-> "a1", rows |-> {[attributes_id |-> "a1", shared_attrs |-> AttrsWithUnit]}],
      [id |-> "a1",
       rows |-> {[attributes_id |-> "a1", shared_attrs |-> AttrsWithoutUnit]}] }
StateDbs ==
    {[events |-> {}, event_data |-> {},
      states |-> prior \cup {State("s2", entity, v, attrs, changed, updated, old,
                                   shared.id, "c1", "NULL")},
      state_attributes |-> shared.rows] :
        prior \in PriorStates, entity \in {E_abc, E_sensor},
        v \in {"NULL", "on", "off"},
        attrs \in {Null, AttrsWithUnit, AttrsWithoutUnit},
        changed \in RecordTimes, updated \in RecordTimes,
        old \in {"NULL", "s1", "s9"}, shared \in SharedAttrs}

\* The declarative filter of the model: it rejects l.a_c.
Filters == [given |-> TRUE, excluded |-> {E_a_c}]

NoRequest == [shape |-> "none", start |-> 0, mid |-> 0, end |-> 0,
              entity_ids |-> <<>>, filters |-> NoFilters, context_id |-> "NULL"]
NoRows == [ab |-> EmptyBag, bc |-> EmptyBag, ac |-> EmptyBag]

\* The shapes of statement_for_request, each over the windows (a, b), (b, c)
\* and (a, c) of three timestamps a < b < c: without entity ids (alone, with a
\* context id, with a filter, with both), with one entity id, with several.
Shapes ==
    { [shape |-> "all", entity_ids |-> <<>>, filters |-> NoFilters,
       context_id |-> "NULL"],
      [shape |-> "context", entity_ids |-> <<>>, filters |-> NoFilters,
       context_id |-> "c1"],
      [shape |-> "all_filtered", entity_ids |-> <<>>, filters |-> Filters,
       context_id |-> "NULL"],
      [shape |-> "context_filtered", entity_ids |-> <<>>, filters |-> Filters,
       context_id |-> "c1"],
      [shape |-> "single", entity_ids |-> <<E_a_c>>, filters |-> NoFilters,
       context_id |-> "NULL"],
      [shape |-> "multi", entity_ids |-> <<E_a_c, E_b>>, filters |-> NoFilters,
       context_id |-> "NULL"] }
Requests ==
    {[shape |-> sh.shape, start |-> a, mid |-> b, end |-> c,
      entity_ids |-> sh.entity_ids, filters |-> sh.filters,
      context_id |-> sh.context_id] :
        sh \in Shapes,
        a \in WindowTimes, b \in WindowTimes, c \in WindowTimes}
QueryRequests == {r \in Requests : r.start < r.mid /\ r.mid < r.end}
\* One window (a, c) of the all-entities shape.
StateRequests ==
    {r \in Requests : r.shape = "all" /\ r.start < r.end /\ r.mid = r.end}

\* A logbook request: the statement is built and run on the database for the
\* window and for its two parts.
Run(r) ==
    /\ request' = r
    /\ rows' =
         [ab |-> statement_for_request(db, r.start, r.mid, EVENT_TYPES,
                                       r.entity_ids, r.filters, r.context_id),
          bc |-> statement_for_request(db, r.mid, r.end, EVENT_TYPES,
                                       r.entity_ids, r.filters, r.context_id),
          ac |-> statement_for_request(db, r.start, r.end, EVENT_TYPES,
                                       r.entity_ids, r.filters, r.context_id)]
    /\ UNCHANGED db
    /\ UNCHANGED <<setupVars, optionsVars>>

LogbookRequest ==
    /\ request = NoRequest
    /\ \E r \in QueryRequests : Run(r)

StatesRequest ==
    /\ request = NoRequest
    /\ \E r \in StateRequests : Run(r)

(***************************************************************************)
(*                          SPECIFICATIONS                                 *)
(***************************************************************************)

QueryIdle ==
    /\ db = EmptyDb
    /\ request = NoRequest
    /\ rows = NoRows

SetupNext ==
    \/ \E f \in SetupFlows : SetupStart(f)
    \/ \E f \in SetupFlows : SetupSubmit(f)
    \/ \E f \in SetupFlows : SetupProbeFails(f)
    \/ \E f \in SetupFlows : SetupProbeSucceeds(f)

InitSetup ==
    /\ SetupInit
    /\ OptionsInit
    /\ devices = {}
    /\ QueryIdle

SpecSetup == InitSetup /\ [][SetupNext]_vars

OptionsNext ==
    \/ \E f \in Flows : OptionsOpen(f)
    \/ \E f \in Flows : OptionsSelect(f)
    \/ \E f \in Flows : OptionsConfigure(f)

InitOptionsFlow ==
    /\ SetupInit
    /\ OptionsInit
    /\ QueryIdle

SpecOptions == InitOptionsFlow /\ [][OptionsNext]_vars

InitQuery ==
    /\ SetupInit
    /\ OptionsInit
    /\ devices = {}
    /\ db \in QueryDbs
    /\ request = NoRequest
    /\ rows = NoRows

QueryNext == LogbookRequest

SpecQuery == InitQuery /\ [][QueryNext]_vars

InitStates ==
    /\ SetupInit
    /\ OptionsInit
    /\ devices = {}
    /\ db \in StateDbs
    /\ request = NoRequest
    /\ rows = NoRows

StatesNext == StatesRequest

SpecStates == InitStates /\ [][StatesNext]_vars

(***************************************************************************)
(*                     CLAIMS ABOUT THE SETUP WIZARD                       *)
(***************************************************************************)

\* The flow f handled a submission of the user form in this step.
Submitted(f) == sstep[f] = "user" /\ sstep'[f] # "user"

EntryOf(f, user_input) ==
    [host |-> user_input.host, port |-> user_input.port, flow |-> f]

\* C2: a submission of the user step (first or retry) whose host and port equal
\* those of an existing entry aborts the flow; no connect attempt is made for it
\* and no entry is created by it, in that step or afterwards.
C2_DuplicateRejectedBeforeProbe ==
    /\ [](\A f \in SetupFlows :
            sstep[f] = "abort" => ~ \E e \in entries : e.flow = f)
    /\ [][\A f \in SetupFlows :
            (Submitted(f) /\ EntriesMatch(entries, sinput'[f]))
            => /\ sstep'[f] = "abort"
               /\ connects' = connects
               /\ entries' = entries]_vars

\* A retry after a failed probe was rejected as a duplicate of an entry that
\* another flow created meanwhile.
C2_Witness ==
    \E f \in SetupFlows :
        /\ sstep[f] = "abort"
        /\ serrors[f] = "cannot_connect"
        /\ EntriesMatch(entries, sinput[f])

\* C3: a failed probe creates no entry and shows the user form again with the
\* error cannot_connect, the flow staying in the user step; a probe that succeeds,
\* also after failed submissions, creates the entry with the host and port of
\* the submission it was made for.
C3_ProbeFailureRecoverable ==
    [][\A f \in SetupFlows :
         (sstep[f] = "connecting" /\ sstep'[f] # "connecting")
         => \/ /\ sstep'[f] = "user"
               /\ serrors'[f] = "cannot_connect"
               /\ entries' = entries
            \/ /\ sstep'[f] = "create_entry"
               /\ entries' = entries \cup {EntryOf(f, sinput[f])}
               /\ EntryOf(f, sinput[f]) \notin entries]_vars

\* An entry created by a flow that had shown the error before, and whose first
\* attempt is not the one that succeeded (two connect attempts were made).
C3_Witness ==
    \E f \in SetupFlows :
        /\ sstep[f] = "create_entry"
        /\ serrors[f] = "cannot_connect"
        /\ EntryOf(f, sinput[f]) \in entries
        /\ Cardinality({c \in connects : c.flow = f}) >= 2

(***************************************************************************)
(*                     CLAIMS ABOUT THE OPTIONS WIZARD                     *)
(***************************************************************************)

EmptyOptions == [has_key |-> FALSE, device_options |-> EmptyDict]

\* C1: a device_selection submission with the clear flag ends the flow in a
\* create-entry result whose options (and so the entry's) are empty, whatever
\* was selected, and no configure_device form is shown.
C1_ClearTerminatesEmpty ==
    (last.op = "device_selection" /\ last.clear)
    => /\ ostep[last.flow] = "create_entry"
       /\ Bag(heap, options[last.flow]) = EmptyOptions
       /\ Bag(heap, entry_options) = EmptyOptions
       /\ shown[last.flow] = <<>>

\* A clear submitted together with selected devices, while another flow still
\* holds the options that were persisted before.
C1_Witness ==
    /\ last.op = "device_selection"
    /\ last.clear
    /\ last.selected # {}
    /\ ostep[last.flow] = "create_entry"
    /\ \E g \in Flows \ {last.flow} :
          ostep[g] = "device_selection" /\ options[g] # NoKey

\* C4: when no device the controller reports supports options, async_step_init
\* ends in an abort and the device_selection form is not shown.
C4_AbortWhenNothingConfigurable ==
    (last.op = "init"
        /\ {d \in devices : d.family \in DEVICE_SUPPORT_OPTIONS} = {})
    => ostep[last.flow] = "abort"

NoRepeat(seq) == \A i, j \in 1..Len(seq) : seq[i] = seq[j] => i = j

\* C5: after a selection of the set S the configure_device form is shown once
\* for each device of S and for no other; the flow is in configure_device while
\* fewer than |S| forms are answered, commits on the answer to the last one, and
\* never pops from an empty pending dict.
C5_ConfigureEachOnce ==
    \A f \in Flows :
        /\ ostep[f] # "KeyError"
        /\ ostep[f] = "configure_device"
           => /\ NoRepeat(shown[f]) /\ NoRepeat(devices_to_configure[f])
              /\ Range(shown[f]) \cap Range(devices_to_configure[f]) = {}
              /\ Range(shown[f]) \cup Range(devices_to_configure[f])
                    = selected_devices[f]
              /\ Len(shown[f]) = nsubmitted[f] + 1
              /\ current_device[f] = shown[f][Len(shown[f])]
        /\ (ostep[f] = "create_entry" /\ selected_devices[f] # {})
           => /\ NoRepeat(shown[f])
              /\ Range(shown[f]) = selected_devices[f]
              /\ nsubmitted[f] = Cardinality(selected_devices[f])
        /\ (ostep[f] \in {"device_selection", "configure_device"}
              /\ selected_devices[f] # {})
           => nsubmitted[f] < Cardinality(selected_devices[f])

\* A flow that committed after configuring two devices.
C5_Witness ==
    \E f \in Flows :
        /\ ostep[f] = "create_entry"
        /\ Cardinality(selected_devices[f]) = 2
        /\ nsubmitted[f] = 2
        /\ last.op = "configure_device"
        /\ last.flow = f

\* C6: a device_selection submission without the clear flag and with no device
\* selected shows the device_selection form again with device_not_selected and
\* changes neither the options nor the pending devices.
C6_EmptySelectionReshowsForm ==
    [][\A f \in Flows :
         (last'.op = "device_selection" /\ last'.flow = f
             /\ ~ last'.clear /\ last'.selected = {})
         => /\ ostep'[f] = "device_selection"
            /\ oerrors'[f] = "device_not_selected"
            /\ UNCHANGED <<options, heap, entry_options, devices_to_configure>>]_vars

\* The error shown to a flow that holds options configured earlier.
C6_Witness ==
    /\ last.op = "device_selection"
    /\ ~ last.clear
    /\ last.selected = {}
    /\ oerrors[last.flow] = "device_not_selected"
    /\ ostep[last.flow] = "device_selection"
    /\ options[last.flow] # NoKey

\* C7: a step of a flow that does not end in create-entry changes neither the
\* options of the config entry nor the options another flow holds.
C7_FlowsIsolated ==
    [][\A f \in Flows :
         (last'.flow = f /\ ostep'[f] # "create_entry")
         => /\ Bag(heap', entry_options') = Bag(heap, entry_options)
            /\ \A g \in Flows \ {f} :
                  Bag(heap', options'[g]) = Bag(heap, options[g])]_vars

(***************************************************************************)
(*                  CLAIMS ABOUT THE LOGBOOK QUERY BUILDER                 *)
(***************************************************************************)

\* Some record of the database is stamped exactly t.
StampedAt(D, t) ==
    \/ \E e \in D.events : e.time_fired = t
    \/ \E x \in D.states : x.last_updated = t \/ x.last_changed = t

\* The rows of a result that are marked, or not marked, context-only.
Marked(result, marker) ==
    [r \in {x \in DOMAIN result : x.context_only = marker} |-> result[r]]

NoRowTwice(result) == \A r \in DOMAIN result : result[r] = 1

\* C8 (as stated): for each of the four shapes and a < b < c with no record
\* stamped b, the rows of (a, b) together with the rows of (b, c) are, as a
\* multiset, the rows of (a, c), and no result holds a row twice.
C8_WindowsAdditive ==
    (request.shape # "none" /\ ~ StampedAt(db, request.mid))
    => /\ rows.ab (+) rows.bc = rows.ac
       /\ NoRowTwice(rows.ab) /\ NoRowTwice(rows.bc) /\ NoRowTwice(rows.ac)

\* The rows of a result that are not stamped t.
NotStamped(result, t) ==
    [r \in {x \in DOMAIN result : x.time_fired # t} |-> result[r]]

\* C8 (amended): no result holds a row twice.  For every shape, the rows not
\* marked context-only of (a, b) together with those of (b, c) are, as a
\* multiset, those of (a, c) that are not stamped b.  With no record stamped b:
\* for the all-entities and context-id shapes the rows of (a, b) together with
\* the rows of (b, c) are the rows of (a, c); for the single- and multi-entity
\* shapes the context-only rows of (a, c) are the rows that are context-only rows
\* of (a, b) or of (b, c), each once.
C8_WindowsAdditiveButContextOnly ==
    request.shape # "none"
    => /\ NoRowTwice(rows.ab) /\ NoRowTwice(rows.bc) /\ NoRowTwice(rows.ac)
       /\ Marked(rows.ab, NOT_CONTEXT_ONLY) (+) Marked(rows.bc, NOT_CONTEXT_ONLY)
             = NotStamped(Marked(rows.ac, NOT_CONTEXT_ONLY), request.mid)
       /\ ~ StampedAt(db, request.mid)
          => /\ DOMAIN Marked(rows.ac, CONTEXT_ONLY)
                   = DOMAIN Marked(rows.ab, CONTEXT_ONLY)
                        \cup DOMAIN Marked(rows.bc, CONTEXT_ONLY)
             /\ request.shape \in {"all", "context"}
                => /\ rows.ab (+) rows.bc = rows.ac
                   /\ DOMAIN Marked(rows.ac, CONTEXT_ONLY) = {}

\* A single-entity request with rows to show in both parts, a state row among
\* them, and a context-only row of another event type that both parts return.
C8_Witness ==
    /\ request.shape = "single"
    /\ ~ StampedAt(db, request.mid)
    /\ \E r \in DOMAIN rows.ab : r.context_only = NOT_CONTEXT_ONLY
    /\ \E r \in DOMAIN rows.bc : r.context_only = NOT_CONTEXT_ONLY
    /\ \E r \in DOMAIN rows.ab :
          /\ r.context_only = CONTEXT_ONLY
          /\ r.event_type \notin EVENT_TYPES
          /\ r \in DOMAIN rows.bc
    /\ \E r \in DOMAIN rows.ac : r.state_id # "NULL"

\* The entity id is present in the window: a state record of it was updated
\* inside the window, or an event inside the window has a payload that names
\* exactly that entity id.
PresentInWindow(D, entity_id, start_day, end_day) ==
    \/ \E x \in D.states :
          x.entity_id = entity_id /\ start_day < x.last_updated /\ x.last_updated < end_day
    \/ \E j \in EventsOuterJoinData(D) :
          /\ start_day < j.e.time_fired /\ j.e.time_fired < end_day
          /\ \/ j.e.event_data = EventDataJson(entity_id)
             \/ j.shared_data = EventDataJson(entity_id)

\* C9: the single-entity and the multi-entity statements return no row when none
\* of the requested entity ids is present in the window.
C9_AbsentEntityNoRows ==
    (request.shape \in {"single", "multi"}
        /\ \A i \in 1..Len(request.entity_ids) :
              ~ PresentInWindow(db, request.entity_ids[i], request.start, request.end))
    => rows.ac = EmptyBag

\* The rows of the state-change branch in a result, by state record.
ReturnedAsStateChange(result, x) ==
    \E r \in DOMAIN result : r.state_id = x.state_id /\ r.event_id = "NULL"

NonContinuous(entity_id) ==
    \A p \in CONTINUOUS_ENTITY_ID_LIKE : ~ LikeMatch(entity_id, p)

PreviousOf(D, x) == {o \in D.states : o.state_id = x.old_state_id}

\* The state records C10 speaks of: of a non-continuous domain, updated strictly
\* inside the window of the request.
C10_Records ==
    {x \in db.states :
        /\ NonContinuous(x.entity_id)
        /\ request.start < x.last_updated /\ x.last_updated < request.end}

\* C10 (as stated): such a record is returned exactly when it links to an
\* existing previous record, its value is non-null and differs from the previous
\* record's value, and its last-updated time equals its last-changed time.
C10_StateChangeReturnedIff ==
    request.shape = "all"
    => \A x \in C10_Records :
          ReturnedAsStateChange(rows.ac, x)
          <=> /\ \E o \in PreviousOf(db, x) : x.state # o.state
              /\ x.state # "NULL"
              /\ x.last_updated = x.last_changed

\* C10 (amended): ... exactly when it links to an existing previous record whose
\* value is non-null, its own value is non-null and differs from that value, and
\* its last-updated time equals its last-changed time.
C10_StateChangeReturnedIffPreviousValue ==
    request.shape = "all"
    => \A x \in C10_Records :
          ReturnedAsStateChange(rows.ac, x)
          <=> /\ \E o \in PreviousOf(db, x) : o.state # "NULL" /\ x.state # o.state
              /\ x.state # "NULL"
              /\ x.last_updated = x.last_changed

\* A returned record, beside a database where the same window holds a record
\* that is left out.
C10_Witness ==
    /\ request.shape = "all"
    /\ \E x \in C10_Records :
          /\ ReturnedAsStateChange(rows.ac, x)
          /\ x.attributes # Null
          /\ \E o \in PreviousOf(db, x) : o.state = "off" /\ x.state = "on"

\* The text holds the measurement-unit key: UNIT_OF_MEASUREMENT_JSON occurs in it.
HoldsUnitKey(text) ==
    /\ text # Null
    /\ \E i \in 1..Len(text) :
          /\ i + Len(UNIT_OF_MEASUREMENT_JSON) - 1 <= Len(text)
          /\ SubSeq(text, i, i + Len(UNIT_OF_MEASUREMENT_JSON) - 1)
                = UNIT_OF_MEASUREMENT_JSON

\* The key is present in the attribute payload of a state record: in its own
\* attributes or in the shared attributes its attributes_id names.
UnitKeyPresent(D, x) ==
    \/ HoldsUnitKey(x.attributes)
    \/ \E a \in D.state_attributes :
          a.attributes_id = x.attributes_id /\ HoldsUnitKey(a.shared_attrs)

\* The state records that pass every state-change condition but the one on the
\* domain and the unit: updated strictly inside the window, last-updated equal to
\* last-changed, a non-null value that differs from the non-null value of an
\* existing previous record.
C11_Records ==
    {x \in db.states :
        /\ request.start < x.last_updated /\ x.last_updated < request.end
        /\ x.last_updated = x.last_changed
        /\ x.state # "NULL"
        /\ \E o \in PreviousOf(db, x) : o.state # "NULL" /\ x.state # o.state}

\* C11: among the records that pass every other state-change condition, one of a
\* continuous domain is returned exactly when the measurement-unit key is absent
\* from its attribute payload, whatever the combination of its own and its shared
\* attributes (each null, with the key, or without it); one of another domain is
\* returned regardless of the key.
C11_UnitKeyDecides ==
    request.shape = "all"
    => \A x \in C11_Records :
          IF NonContinuous(x.entity_id)
          THEN ReturnedAsStateChange(rows.ac, x)
          ELSE ReturnedAsStateChange(rows.ac, x) <=> ~ UnitKeyPresent(db, x)

\* The rows of a result that _select_states produced.
StateChangeRows(result) ==
    {r \in DOMAIN result : r.event_id = "NULL" /\ r.state_id # "NULL"}

\* C12: a statement built without entity ids is limited by the context id and by
\* the filter: every returned row carries the requested context id when one is
\* given, and every returned state-change row passes the filter's entity
\* predicate when a filter is given, also when both are given.
C12_LimitedByContextAndFilter ==
    (request.shape # "none" /\ request.entity_ids = <<>>)
    => /\ request.context_id # "NULL"
          => \A r \in DOMAIN rows.ac : r.context_id = request.context_id
       /\ request.filters.given
          => \A r \in StateChangeRows(rows.ac) :
                r.entity_id \notin request.filters.excluded

====
